---- MODULE Spec2Model ----
(***************************************************************************)
(* Model of llmstack/server/consumers.py: the websocket consumers that sit *)
(* between client connections and the app runner (AppConsumer,             *)
(* StoreAppConsumer, PlaygroundConsumer), the asset stream consumer, the   *)
(* connection activation consumer and the Twilio voice consumer.           *)
(*                                                                         *)
(* One consumer instance is modelled at a time; `flavor` says which class  *)
(* it is.  Every coroutine spawned by `receive` is a task; a task step is  *)
(* the code between two suspension points (awaits that wait on the engine, *)
(* the storage layer or the actor).                                        *)
(***************************************************************************)
EXTENDS Integers, Sequences, FiniteSets, TLC

VARIABLES
    flavor,                 \* which consumer class this instance is
    phase,                  \* "new", "accepted", "refused", "disconnected"
    connected,              \* self._connected
    app_runner,             \* self._app_runner: 0 is None, else a handle id
    event_response_task,    \* self._event_response_task: 0 is None, else a task id
    tasks,                  \* the coroutines spawned by receive, in spawn order
    outbound,               \* frames passed to self.send, in order, with the sending task
    closes,                 \* number of self.close() calls performed
    stops,                  \* stops[h]: number of stop() calls on run handle h
    escaped,                \* exceptions that left a callback or a task uncaught
    \* AssetStreamConsumer: the connections to one asset, and its storage
    asset,                  \* asset[c]: self._asset of connection c
    aphase,                 \* aphase[c]: "new", "accepted", "disconnected"
    stream,                 \* the AssetStream's storage: chunks and finalized
    atasks,                 \* the coroutines spawned by receive, in arrival order,
                            \* each with the self.send and self.close calls it made
    \* ConnectionConsumer (with phase, tasks, outbound, closes, escaped)
    actor,                  \* self.connection_activation_actor: "unset", "alive", "stopped"
    actor_log,              \* the calls made on the actor, in order
    activation_task,        \* self._activation_task: 0 is None, else a task id
    terminated,             \* <<>>, or what held when the first terminate input was
                            \* taken: the frames sent so far and the task held
    nframes,                \* frames received by ConnectionConsumer
    \* TwilioVoiceConsumer (with the session variables)
    input_audio_stream,     \* self._input_audio_stream: 0 is None, 1 is attached
    input_audio,            \* the chunks appended to the input audio asset
    output_audio_task,      \* self._output_audio_task: 0 is None, else a relay id
    otasks,                 \* the coroutines of _process_output_audio_stream
    stream_sid              \* self._stream_sid: "unset" until a start event sets it

sessVars == <<flavor, phase, connected, app_runner, event_response_task,
              tasks, outbound, closes, stops, escaped>>

assetVars == <<asset, aphase, stream, atasks>>

actVars == <<actor, actor_log, activation_task, terminated, nframes>>

twVars == <<input_audio_stream, input_audio, output_audio_task, otasks, stream_sid>>

\* what the actions of AppConsumer and PlaygroundConsumer leave alone
otherVars == <<assetVars, actVars, twVars>>

vars == <<sessVars, assetVars, actVars, twVars>>

----------------------------------------------------------------------------
(* Bounds of the model *)

\* frames a client sends on one connection
MaxEvents == 2
\* frames received plus responses the engine yields on one connection
MaxInputs == 5
\* binary frames received on the connections of one asset
MaxAssetFrames == 4
\* events the activation actor yields on one connection
MaxActivationEvents == 2
\* frames received plus responses and audio chunks yielded on one call
MaxCallInputs == 4

(* Inputs *)

\* The correlation id of the n-th frame a client sends: a token of its own
RequestId(n) == [r |-> n]
Errors == <<[message |-> "boom"], [message |-> "bad"]>>

(* AppRunnerStreamingResponseType *)
ResponseTypes == {"OUTPUT_STREAM_CHUNK", "OUTPUT", "ERRORS", "OUTPUT_STREAM_END"}

\* The response of type ty that the engine yields as its n-th response on the
\* connection: every chunk carries deltas of its own, so that two chunks are
\* told apart on the wire.
Response(ty, n) ==
    [type |-> ty,
     data |-> IF ty = "OUTPUT_STREAM_CHUNK" THEN [deltas |-> n]
              ELSE IF ty = "OUTPUT" THEN [chunks |-> n]
              ELSE IF ty = "ERRORS" THEN [errors |-> Errors]
              ELSE [end |-> TRUE]]

None == 0

Handles == 0 .. (MaxEvents + 1)

----------------------------------------------------------------------------
(* Frames *)

\* response.model_dump_json(): the serialized response, passed through
ModelDumpJson(response) == [type |-> response.type, data |-> response.data]

\* [error.message for error in response.data.errors]
ErrorMessages(errors) == [i \in 1 .. Len(errors) |-> errors[i].message]

ErrorsFrame(response, client_request_id) ==
    [errors |-> ErrorMessages(response.data.errors), request_id |-> client_request_id]

DoneFrame(client_request_id) == [event |-> "done", request_id |-> client_request_id]

\* AppDispatch with the OUTPUT_STREAM_END branch left out
AppDispatchWithoutDone(response, client_request_id) ==
    IF response.type = "OUTPUT_STREAM_CHUNK" THEN <<ModelDumpJson(response)>>
    ELSE IF response.type = "ERRORS" THEN <<ErrorsFrame(response, client_request_id)>>
    ELSE <<>>

\* The frames AppConsumer's loop body sends for one response
AppDispatch(response, client_request_id) ==
    IF response.type = "OUTPUT_STREAM_CHUNK" THEN <<ModelDumpJson(response)>>
    ELSE IF response.type = "ERRORS" THEN <<ErrorsFrame(response, client_request_id)>>
    ELSE IF response.type = "OUTPUT_STREAM_END" THEN <<DoneFrame(client_request_id)>>
    ELSE <<>>

\* The reply of the create_asset branch.  The metadata dictionary reads
\* self.app_id, an attribute no consumer class sets, so the try block always
\* leaves through the except clause and the reply is the errors frame.
CreateAssetReply(client_request_id) ==
    [errors |-> <<"AttributeError">>, reply_to |-> client_request_id,
     request_id |-> client_request_id, asset_request_id |-> client_request_id]

\* AppSessionFiles.create_asset: what the collaborator answers to the request
\* with this id, were it called: an asset, no asset, or an exception
CreateAssetOutcome(client_request_id) ==
    IF client_request_id = RequestId(1) THEN "asset"
    ELSE IF client_request_id = RequestId(2) THEN "none"
    ELSE "raises"

Sent(t, frames) == [i \in 1 .. Len(frames) |-> [by |-> t, frame |-> frames[i]]]

----------------------------------------------------------------------------
(* Tasks *)

NewTask(event, id) ==
    [event |-> event, id |-> id, pc |-> "ready", yielded |-> <<>>,
     cancel |-> FALSE, runner |-> None]

\* run_coro_in_new_loop / Task.cancel(): a cancel request reaches a task that
\* has not finished; the task sees it at its next suspension point.
Cancel(ts, h) ==
    IF h # None /\ ts[h].pc \in {"ready", "iter"}
    THEN [ts EXCEPT ![h].cancel = TRUE]
    ELSE ts

Running(t) == tasks[t].pc \in {"ready", "iter"}

TaskIds == 1 .. Len(tasks)

RECURSIVE TotalYielded(_)
TotalYielded(ts) ==
    IF ts = <<>> THEN 0 ELSE Len(ts[1].yielded) + TotalYielded(Tail(ts))

InputsSoFar == Len(tasks) + TotalYielded(tasks)

\* The n-th frame a client sends to AppConsumer: any event
AppFrames(n) ==
    [event : {"run", "create_asset", "delete_asset", "stop", "other"},
     id : {RequestId(n)}]

----------------------------------------------------------------------------
(* AppConsumer, StoreAppConsumer *)

AppConnect ==
    /\ flavor = "web"
    /\ phase = "new"
    /\ \/ /\ app_runner' = 1
          /\ event_response_task' = None
          /\ connected' = TRUE
          /\ phase' = "accepted"
       \/ /\ phase' = "refused"
          /\ UNCHANGED <<app_runner, event_response_task, connected>>
    /\ UNCHANGED <<flavor, tasks, outbound, closes, stops, escaped, otherVars>>

StoreAppConnect ==
    /\ flavor = "store"
    /\ phase = "new"
    /\ \/ /\ app_runner' = 1
          /\ connected' = TRUE
          /\ event_response_task' = None
          /\ phase' = "accepted"
       \/ /\ phase' = "refused"
          /\ UNCHANGED <<app_runner, event_response_task, connected>>
    /\ UNCHANGED <<flavor, tasks, outbound, closes, stops, escaped, otherVars>>

\* disconnect.  After a connect that raised in get_app_runner_async the
\* attribute self._app_runner was never assigned, and reading it raises.
AppDisconnect ==
    /\ flavor \in {"web", "store"}
    /\ phase \in {"accepted", "refused"}
    /\ connected' = FALSE
    /\ IF phase = "refused"
       THEN /\ escaped' = escaped \cup {"disconnect"}
            /\ UNCHANGED stops
       ELSE /\ stops' = IF app_runner # None
                        THEN [stops EXCEPT ![app_runner] = @ + 1]
                        ELSE stops
            /\ UNCHANGED escaped
    /\ phase' = "disconnected"
    /\ UNCHANGED <<flavor, app_runner, event_response_task, tasks, outbound,
                   closes, otherVars>>

\* AppReceive keeping the handle of the first task it spawned
AppReceiveKeepsFirst ==
    /\ flavor \in {"web", "store"}
    /\ phase = "accepted"
    /\ Len(tasks) < MaxEvents
    /\ InputsSoFar < MaxInputs
    /\ \E json_data \in AppFrames(Len(tasks) + 1) :
          /\ tasks' = Append(tasks, NewTask(json_data.event, json_data.id))
          /\ event_response_task' =
                IF event_response_task = None THEN Len(tasks) + 1
                ELSE event_response_task
    /\ UNCHANGED <<flavor, phase, connected, app_runner, outbound, closes,
                   stops, escaped, otherVars>>

AppReceive ==
    /\ flavor \in {"web", "store"}
    /\ phase = "accepted"
    /\ Len(tasks) < MaxEvents
    /\ InputsSoFar < MaxInputs
    /\ \E json_data \in AppFrames(Len(tasks) + 1) :
          /\ tasks' = Append(tasks, NewTask(json_data.event, json_data.id))
          /\ event_response_task' = Len(tasks) + 1
    /\ UNCHANGED <<flavor, phase, connected, app_runner, outbound, closes,
                   stops, escaped, otherVars>>

\* AppConsumer.stop, run by task t
AppStop(t) ==
    /\ connected' = FALSE
    /\ tasks' = [Cancel(tasks, event_response_task) EXCEPT ![t].pc = "done"]
    /\ closes' = closes + 1
    /\ UNCHANGED <<flavor, phase, app_runner, event_response_task, outbound,
                   stops, escaped, otherVars>>

\* A task cancelled while it waits never resumes its coroutine
AppCancelled(t) ==
    /\ tasks[t].cancel
    /\ tasks' = [tasks EXCEPT ![t].pc = "cancelled"]
    /\ UNCHANGED <<flavor, phase, connected, app_runner, event_response_task,
                   outbound, closes, stops, escaped, otherVars>>

\* _respond_to_event for the events that are not run: the whole coroutine,
\* which has no suspension point before its sends
AppRespondOther(t) ==
    /\ tasks[t].pc = "ready"
    /\ ~tasks[t].cancel
    /\ \/ /\ tasks[t].event = "create_asset"
          /\ outbound' = outbound \o Sent(t, <<CreateAssetReply(tasks[t].id)>>)
          /\ tasks' = [tasks EXCEPT ![t].pc = "done"]
          /\ UNCHANGED <<flavor, phase, connected, app_runner,
                         event_response_task, closes, stops, escaped, otherVars>>
       \/ /\ tasks[t].event \in {"delete_asset", "other"}
          /\ tasks' = [tasks EXCEPT ![t].pc = "done"]
          /\ UNCHANGED <<flavor, phase, connected, app_runner,
                         event_response_task, outbound, closes, stops, escaped, otherVars>>
       \/ /\ tasks[t].event = "stop"
          /\ AppStop(t)

\* AppRunBody putting the frames of a response before the frames sent so far
AppRunBodyPrepends(t, response) ==
    IF ~connected
    THEN /\ tasks' = [tasks EXCEPT ![t].pc = "done",
                                   ![t].yielded = Append(@, response)]
         /\ UNCHANGED outbound
    ELSE /\ tasks' = [tasks EXCEPT ![t].pc = "iter",
                                   ![t].yielded = Append(@, response)]
         /\ outbound' = Sent(t, AppDispatch(response, tasks[t].id)) \o outbound

\* The loop body of the run branch for one response: the liveness check, then
\* the send
AppRunBody(t, response) ==
    IF ~connected
    THEN /\ tasks' = [tasks EXCEPT ![t].pc = "done",
                                   ![t].yielded = Append(@, response)]
         /\ UNCHANGED outbound
    ELSE /\ tasks' = [tasks EXCEPT ![t].pc = "iter",
                                   ![t].yielded = Append(@, response)]
         /\ outbound' = outbound \o Sent(t, AppDispatch(response, tasks[t].id))

\* AppRespondRun reporting an exception of the engine to the client
AppRespondRunReportsRaise(t) ==
    /\ tasks[t].event = "run"
    /\ ~tasks[t].cancel
    /\ \/ /\ InputsSoFar < MaxInputs
          /\ \E ty \in ResponseTypes :
                AppRunBody(t, Response(ty, TotalYielded(tasks) + 1))
       \/ /\ tasks' = [tasks EXCEPT ![t].pc = "done"]
          /\ UNCHANGED outbound
       \/ /\ tasks' = [tasks EXCEPT ![t].pc = "raised"]
          /\ outbound' = outbound
                \o Sent(t, <<ErrorsFrame(Response("ERRORS", 0), tasks[t].id)>>)
    /\ UNCHANGED <<flavor, phase, connected, app_runner, event_response_task,
                   closes, stops, escaped, otherVars>>

\* The run branch: one turn of `async for response in response_iterator`
AppRespondRun(t) ==
    /\ tasks[t].event = "run"
    /\ ~tasks[t].cancel
    /\ \/ \* the engine yields a response
          /\ InputsSoFar < MaxInputs
          /\ \E ty \in ResponseTypes :
                AppRunBody(t, Response(ty, TotalYielded(tasks) + 1))
       \/ \* the response sequence ends
          /\ tasks' = [tasks EXCEPT ![t].pc = "done"]
          /\ UNCHANGED outbound
       \/ \* the engine raises; `except Exception` logs it
          /\ tasks' = [tasks EXCEPT ![t].pc = "raised"]
          /\ UNCHANGED outbound
    /\ UNCHANGED <<flavor, phase, connected, app_runner, event_response_task,
                   closes, stops, escaped, otherVars>>

AppRespondToEvent ==
    /\ flavor \in {"web", "store"}
    /\ \E t \in TaskIds :
          /\ Running(t)
          /\ \/ AppCancelled(t)
             \/ AppRespondOther(t)
             \/ AppRespondRun(t)

----------------------------------------------------------------------------
(* PlaygroundConsumer *)

\* The n-th frame a client sends to PlaygroundConsumer: a run, or a frame
\* with any other event.  _respond_to_event reads no `event` key.
PlaygroundFrames(n) == [event : {"run", "other"}, id : {RequestId(n)}]

DoneDataFrame(response, client_request_id) ==
    [event |-> "done", request_id |-> client_request_id,
     data |-> response.data.chunks]

\* The frames PlaygroundConsumer's loop body sends for one response
PlaygroundDispatch(response, client_request_id) ==
    IF response.type = "OUTPUT_STREAM_CHUNK" THEN <<ModelDumpJson(response)>>
    ELSE IF response.type = "OUTPUT"
         THEN <<DoneDataFrame(response, client_request_id)>>
    ELSE <<>>

PlaygroundConnect ==
    /\ flavor = "playground"
    /\ phase = "new"
    /\ event_response_task' = None
    /\ app_runner' = None
    /\ connected' = TRUE
    /\ phase' = "accepted"
    /\ UNCHANGED <<flavor, tasks, outbound, closes, stops, escaped, otherVars>>

PlaygroundDisconnect ==
    /\ flavor = "playground"
    /\ phase = "accepted"
    /\ connected' = FALSE
    /\ tasks' = Cancel(tasks, event_response_task)
    /\ stops' = IF app_runner # None
                THEN [stops EXCEPT ![app_runner] = @ + 1]
                ELSE stops
    /\ phase' = "disconnected"
    /\ UNCHANGED <<flavor, app_runner, event_response_task, outbound, closes,
                   escaped, otherVars>>

PlaygroundReceive ==
    /\ flavor = "playground"
    /\ phase = "accepted"
    /\ Len(tasks) < MaxEvents
    /\ InputsSoFar < MaxInputs
    /\ \E json_data \in PlaygroundFrames(Len(tasks) + 1) :
          /\ tasks' = Append(tasks, NewTask(json_data.event, json_data.id))
          /\ event_response_task' = Len(tasks) + 1
    /\ UNCHANGED <<flavor, phase, connected, app_runner, outbound, closes,
                   stops, escaped, otherVars>>

PlaygroundCancelled(t) ==
    /\ tasks[t].cancel
    /\ tasks' = [tasks EXCEPT ![t].pc = "cancelled"]
    /\ UNCHANGED <<flavor, phase, connected, app_runner, event_response_task,
                   outbound, closes, stops, escaped, otherVars>>

\* self._app_runner = await PlaygroundViewSet().get_app_runner_async(...):
\* the run's own handle, named after the task, replaces the one held
PlaygroundGetRunner(t) ==
    /\ tasks[t].pc = "ready"
    /\ ~tasks[t].cancel
    /\ \/ /\ app_runner' = t + 1
          /\ tasks' = [tasks EXCEPT ![t].pc = "iter", ![t].runner = t + 1]
          /\ UNCHANGED escaped
       \/ \* the factory raises, outside the try block
          /\ tasks' = [tasks EXCEPT ![t].pc = "failed"]
          /\ escaped' = escaped \cup {"_respond_to_event"}
          /\ UNCHANGED app_runner
    /\ UNCHANGED <<flavor, phase, connected, event_response_task, outbound,
                   closes, stops, otherVars>>

\* await self._app_runner.stop() after the loop: the handle held now
PlaygroundStopHeld == [stops EXCEPT ![app_runner] = @ + 1]

PlaygroundRunBody(t, response) ==
    IF ~connected
    THEN /\ tasks' = [tasks EXCEPT ![t].pc = "done",
                                   ![t].yielded = Append(@, response)]
         /\ stops' = PlaygroundStopHeld
         /\ UNCHANGED outbound
    ELSE /\ tasks' = [tasks EXCEPT ![t].yielded = Append(@, response)]
         /\ outbound' = outbound
                \o Sent(t, PlaygroundDispatch(response, tasks[t].id))
         /\ UNCHANGED stops

PlaygroundRespondRun(t) ==
    /\ tasks[t].pc = "iter"
    /\ ~tasks[t].cancel
    /\ \/ \* the engine yields a response
          /\ InputsSoFar < MaxInputs
          /\ \E ty \in ResponseTypes :
                PlaygroundRunBody(t, Response(ty, TotalYielded(tasks) + 1))
       \/ \* the response sequence ends
          /\ tasks' = [tasks EXCEPT ![t].pc = "done"]
          /\ stops' = PlaygroundStopHeld
          /\ UNCHANGED outbound
       \/ \* the engine raises; `except Exception` logs it
          /\ tasks' = [tasks EXCEPT ![t].pc = "raised"]
          /\ stops' = PlaygroundStopHeld
          /\ UNCHANGED outbound
    /\ UNCHANGED <<flavor, phase, connected, app_runner, event_response_task,
                   closes, escaped, otherVars>>

PlaygroundRespondToEvent ==
    /\ flavor = "playground"
    /\ \E t \in TaskIds :
          /\ Running(t)
          /\ \/ PlaygroundCancelled(t)
             \/ PlaygroundGetRunner(t)
             \/ PlaygroundRespondRun(t)

----------------------------------------------------------------------------
(* Bytes: a frame's bytes_data is a sequence of one-character strings *)

NL == "\n"
ReadTag == <<"r", "e", "a", "d">>
WriteTag == <<"w", "r", "i", "t", "e">>
OtherTag == <<"p", "i", "n", "g">>

\* bytes_data.split(b"\n")[0]: the bytes before the first newline
RECURSIVE FirstField(_)
FirstField(bytes) ==
    IF bytes = <<>> \/ bytes[1] = NL THEN <<>>
    ELSE <<bytes[1]>> \o FirstField(Tail(bytes))

\* bytes_data[n:]
From(bytes, n) ==
    IF n >= Len(bytes) THEN <<>> ELSE SubSeq(bytes, n + 1, Len(bytes))

\* The payload of the n-th frame, when it is a write: n bytes, so that the
\* payloads of two frames differ and their lengths differ
RECURSIVE Payload(_)
Payload(n) == IF n = 0 THEN <<>> ELSE <<"A">> \o Payload(n - 1)

\* The n-th binary frame a client sends: read, finalize, write with a
\* payload, another tag, or no bytes at all
AssetFrames(n) ==
    {ReadTag, WriteTag \o <<NL>>, WriteTag \o <<NL>> \o Payload(n), OtherTag, <<>>}

----------------------------------------------------------------------------
(* AssetStream (llmstack.assets.stream): append_chunk, finalize, read_async *)

\* append_chunk refuses a finalized stream
CanAppend(st) == ~st.finalized

AppendChunk(st, chunk) == [st EXCEPT !.chunks = Append(@, chunk)]

Finalize(st) == [st EXCEPT !.finalized = TRUE]

\* read_async(start_index=0) has a next chunk for a reader that has had n
HasNext(st, n) == n < Len(st.chunks)

\* read_async ends once the stream is finalized and every chunk was yielded
ReadEnds(st, n) == st.finalized /\ n >= Len(st.chunks)

----------------------------------------------------------------------------
(* AssetStreamConsumer *)

AssetConns == {1}

SendBytes(data) == [op |-> "send", arg |-> data]
\* Close with the status code left out
CloseWithoutCode(code) == [op |-> "close", arg |-> None]
\* self.close(code=code); self.close() is Close(None)
Close(code) == [op |-> "close", arg |-> code]

AssetConnect ==
    /\ flavor = "asset"
    /\ \E c \in AssetConns :
          /\ aphase[c] = "new"
          /\ \E resolved \in {"asset", "null"} :
                asset' = [asset EXCEPT ![c] = resolved]
          /\ aphase' = [aphase EXCEPT ![c] = "accepted"]
    /\ UNCHANGED <<stream, atasks, sessVars, actVars, twVars>>

AssetDisconnect ==
    /\ flavor = "asset"
    /\ \E c \in AssetConns :
          /\ aphase[c] = "accepted"
          /\ aphase' = [aphase EXCEPT ![c] = "disconnected"]
    /\ UNCHANGED <<asset, stream, atasks, sessVars, actVars, twVars>>

AssetReceive ==
    /\ flavor = "asset"
    /\ Len(atasks) < MaxAssetFrames
    /\ \E c \in AssetConns, bytes_data \in AssetFrames(Len(atasks) + 1) :
          /\ aphase[c] = "accepted"
          /\ atasks' = Append(atasks, [conn |-> c, bytes_data |-> bytes_data,
                                       pc |-> "ready", index |-> 0,
                                       wire |-> <<>>])
    /\ UNCHANGED <<asset, aphase, stream, sessVars, actVars, twVars>>

\* AssetFailed with the exception swallowed: no frame, no close
AssetFailedSilently(t, why) ==
    /\ atasks' = [atasks EXCEPT ![t].pc = why]
    /\ UNCHANGED stream

\* AssetFailed closing before it sends the empty frame
AssetFailedClosesFirst(t, why) ==
    /\ atasks' = [atasks EXCEPT ![t].pc = why,
                      ![t].wire = @ \o <<Close(None), SendBytes(<<>>)>>]
    /\ UNCHANGED stream

\* except Exception: the empty frame, then the close
AssetFailed(t, why) ==
    /\ atasks' = [atasks EXCEPT ![t].pc = why,
                      ![t].wire = @ \o <<SendBytes(<<>>), Close(None)>>]
    /\ UNCHANGED stream

\* _respond_to_event up to the end of its first storage call
AssetRespondStart(t) ==
    LET bytes_data == atasks[t].bytes_data
        event == FirstField(bytes_data)
    IN  /\ atasks[t].pc = "ready"
        /\ IF bytes_data = <<>>
           THEN /\ atasks' = [atasks EXCEPT ![t].pc = "done"]
                /\ UNCHANGED stream
           ELSE IF asset[atasks[t].conn] = "null"
           THEN /\ atasks' = [atasks EXCEPT ![t].pc = "done",
                                 ![t].wire = Append(@, Close(1008))]
                /\ UNCHANGED stream
           ELSE IF event = ReadTag
           THEN /\ atasks' = [atasks EXCEPT ![t].pc = "reading"]
                /\ UNCHANGED stream
           ELSE IF event = WriteTag
           THEN IF bytes_data = WriteTag \o <<NL>>
                THEN \/ /\ stream' = Finalize(stream)
                        /\ atasks' = [atasks EXCEPT ![t].pc = "done",
                                 ![t].wire = Append(@, Close(None))]
                     \/ \* the storage layer raises
                        AssetFailed(t, "fault")
                ELSE \/ /\ CanAppend(stream)
                        /\ stream' = AppendChunk(stream, From(bytes_data, 6))
                        /\ atasks' = [atasks EXCEPT ![t].pc = "done"]
                     \/ \* append_chunk refuses
                        /\ ~CanAppend(stream)
                        /\ AssetFailed(t, "refused")
                     \/ \* the storage layer raises
                        /\ CanAppend(stream)
                        /\ AssetFailed(t, "fault")
           ELSE /\ atasks' = [atasks EXCEPT ![t].pc = "done"]
                /\ UNCHANGED stream

\* AssetRespondRead with the chunk taken from the stream but not sent
AssetRespondReadDrops(t) ==
    /\ atasks[t].pc = "reading"
    /\ \/ /\ HasNext(stream, atasks[t].index)
          /\ atasks' = [atasks EXCEPT ![t].index = @ + 1]
          /\ UNCHANGED stream
       \/ /\ ReadEnds(stream, atasks[t].index)
          /\ atasks' = [atasks EXCEPT ![t].pc = "done"]
          /\ UNCHANGED stream
       \/ AssetFailed(t, "fault")

\* One turn of `async for chunk in asset_stream.read_async(start_index=0)`
AssetRespondRead(t) ==
    /\ atasks[t].pc = "reading"
    /\ \/ /\ HasNext(stream, atasks[t].index)
          /\ atasks' = [atasks EXCEPT ![t].index = @ + 1,
                ![t].wire = Append(@, SendBytes(stream.chunks[atasks[t].index + 1]))]
          /\ UNCHANGED stream
       \/ /\ ReadEnds(stream, atasks[t].index)
          /\ atasks' = [atasks EXCEPT ![t].pc = "done"]
          /\ UNCHANGED stream
       \/ \* the storage layer raises
          AssetFailed(t, "fault")

AssetRespondToEvent ==
    /\ flavor = "asset"
    /\ \E t \in 1 .. Len(atasks) :
          \/ AssetRespondStart(t)
          \/ AssetRespondRead(t)
    /\ UNCHANGED <<asset, aphase, sessVars, actVars, twVars>>

----------------------------------------------------------------------------
(* ConnectionConsumer *)

\* What the sequence returned by actor.activate() can yield: a Connection
\* (ACTIVE or not), a ConnectionActivationOutput, a dict with the optional
\* keys connection and error
ActivationEvents ==
    [kind : {"Connection"}, status : {"ACTIVE", "FAILED"}]
        \cup {[kind |-> "Output", data |-> "url"]}
        \cup [kind : {"dict"}, connection : BOOLEAN, error : BOOLEAN]

ActivationFrames ==
    {[event |-> "activate", input |-> "none"],
     [event |-> "input", input |-> "terminate"],
     [event |-> "input", input |-> "code"],
     [event |-> "other", input |-> "none"]}

NewActivationTask == [pc |-> "start", cancel |-> FALSE, cur |-> "none", seen |-> 0]

ActivationRunning(t) == tasks[t].pc \in {"start", "wait", "commit"}

TotalSeen == LET RECURSIVE Sum(_)
                 Sum(ts) == IF ts = <<>> THEN 0 ELSE ts[1].seen + Sum(Tail(ts))
             IN  Sum(tasks)

ConnectionConnect ==
    /\ flavor = "activation"
    /\ phase = "new"
    /\ activation_task' = None
    /\ \/ \* self.user.is_anonymous
          /\ closes' = closes + 1
          /\ phase' = "refused"
          /\ UNCHANGED <<actor, actor_log>>
       \/ /\ actor' = "alive"
          /\ phase' = "accepted"
          /\ UNCHANGED <<closes, actor_log>>
    /\ UNCHANGED <<flavor, connected, app_runner, event_response_task, tasks,
                   outbound, stops, escaped, terminated, nframes, assetVars, twVars>>

\* The body of disconnect.  Its last statement, self.close(code=close_code),
\* is not awaited: the coroutine object is dropped and nothing is closed.
DisconnectBody ==
    IF actor = "unset"
    THEN /\ escaped' = escaped \cup {"disconnect"}
         /\ UNCHANGED <<actor, actor_log, tasks>>
    ELSE /\ actor' = "stopped"
         /\ actor_log' = Append(actor_log, "stop")
         /\ tasks' = IF activation_task # None
                        /\ ActivationRunning(activation_task)
                     THEN [tasks EXCEPT ![activation_task].cancel = TRUE]
                     ELSE tasks
         /\ UNCHANGED escaped

\* disconnect, called and awaited by the transport
ConnectionDisconnect ==
    /\ flavor = "activation"
    /\ phase \in {"accepted", "refused"}
    /\ DisconnectBody
    /\ phase' = "disconnected"
    /\ UNCHANGED <<flavor, connected, app_runner, event_response_task,
                   outbound, closes, stops, activation_task, terminated,
                   nframes, assetVars, twVars>>

\* self.disconnect(1000) in receive: the call makes a coroutine object that
\* is never awaited, so the body of disconnect does not run
DisconnectNotAwaited ==
    UNCHANGED <<actor, tasks, escaped, phase, closes>>

ConnectionReceive ==
    /\ flavor = "activation"
    /\ phase = "accepted"
    /\ nframes < MaxEvents
    /\ nframes' = nframes + 1
    /\ \E json_data \in ActivationFrames :
          \/ /\ json_data.event = "activate"
             /\ tasks' = Append(tasks, NewActivationTask)
             /\ activation_task' = Len(tasks) + 1
             /\ UNCHANGED <<actor, actor_log, escaped, phase, closes,
                            terminated>>
          \/ /\ json_data.event = "input" /\ json_data.input = "terminate"
             /\ actor_log' = Append(actor_log, "input")
             /\ terminated' = IF terminated = <<>>
                              THEN <<[frames |-> Len(outbound),
                                      task |-> activation_task]>>
                              ELSE terminated
             /\ DisconnectNotAwaited
             /\ UNCHANGED activation_task
          \/ /\ ~(json_data.event = "activate")
             /\ ~(json_data.event = "input" /\ json_data.input = "terminate")
             /\ UNCHANGED <<actor, actor_log, tasks, escaped, phase, closes,
                            activation_task, terminated>>
    /\ UNCHANGED <<flavor, connected, app_runner, event_response_task,
                   outbound, stops, assetVars, twVars>>

StatusFrame(c) == [event |-> IF c.status = "ACTIVE" THEN "success" ELSE "error"]
OutputFrame(c) == [event |-> "output", output |-> c.data]
ErrorFrame(c) == [event |-> "error", error |-> "error"]

\* except Exception in _activate_connection: log, stop the actor
ActivationFailed(t) ==
    /\ tasks' = [tasks EXCEPT ![t].pc = "raised", ![t].cur = "none"]
    /\ actor' = "stopped"
    /\ actor_log' = Append(actor_log, "stop")
    /\ UNCHANGED outbound

\* The loop body after the awaits on set_connection: the sends, the stop
ActivationFinish(t, c) ==
    /\ tasks' = [tasks EXCEPT ![t].pc = "wait", ![t].cur = "none",
                              ![t].seen = IF tasks[t].pc = "wait" THEN @ + 1
                                          ELSE @]
    /\ IF c.kind = "Connection"
       THEN /\ outbound' = outbound \o Sent(t, <<StatusFrame(c)>>)
            /\ actor' = "stopped"
            /\ actor_log' = Append(actor_log, "stop")
       ELSE IF c.kind = "Output"
       THEN /\ outbound' = outbound \o Sent(t, <<OutputFrame(c)>>)
            /\ UNCHANGED <<actor, actor_log>>
       ELSE /\ outbound' = IF c.error
                           THEN outbound \o Sent(t, <<ErrorFrame(c)>>)
                           ELSE outbound
            /\ UNCHANGED <<actor, actor_log>>

NeedsCommit(c) ==
    \/ c.kind = "Connection" /\ c.status = "ACTIVE"
    \/ c.kind = "dict" /\ c.connection

\* _activate_connection, from one suspension point to the next
ActivateConnection(t) ==
    /\ ActivationRunning(t)
    /\ IF tasks[t].cancel
       THEN \* CancelledError is no Exception: the task ends there
            /\ tasks' = [tasks EXCEPT ![t].pc = "cancelled"]
            /\ UNCHANGED <<actor, actor_log, outbound>>
       ELSE IF actor = "stopped" /\ tasks[t].pc \in {"start", "commit"}
       THEN \* a call on a stopped actor raises
            ActivationFailed(t)
       ELSE IF tasks[t].pc = "start"
       THEN /\ tasks' = [tasks EXCEPT ![t].pc = "wait"]
            /\ actor_log' = Append(actor_log, "activate")
            /\ UNCHANGED <<actor, outbound>>
       ELSE IF tasks[t].pc = "commit"
       THEN /\ ActivationFinish(t, tasks[t].cur)
       ELSE \/ \* the sequence yields the next event
               /\ TotalSeen < MaxActivationEvents
               /\ \E c \in ActivationEvents :
                     IF NeedsCommit(c)
                     THEN IF actor = "stopped"
                          THEN /\ ActivationFailed(t)
                          ELSE /\ tasks' = [tasks EXCEPT ![t].pc = "commit",
                                                ![t].cur = c,
                                                ![t].seen = @ + 1]
                               /\ actor_log' = Append(actor_log, "set_connection")
                               /\ UNCHANGED <<actor, outbound>>
                     ELSE /\ ActivationFinish(t, c)
            \/ \* the sequence ends
               /\ tasks' = [tasks EXCEPT ![t].pc = "done"]
               /\ UNCHANGED <<actor, actor_log, outbound>>
            \/ \* the sequence raises
               ActivationFailed(t)

ConnectionActivate ==
    /\ flavor = "activation"
    /\ \E t \in TaskIds : ActivateConnection(t)
    /\ UNCHANGED <<flavor, phase, connected, app_runner, event_response_task,
                   closes, stops, escaped, activation_task, terminated,
                   nframes, assetVars, twVars>>

----------------------------------------------------------------------------
(* TwilioVoiceConsumer *)

\* base64: a payload is a text that decodes to bytes, or does not decode
B64Encode(bytes) == [valid |-> TRUE, bytes |-> bytes]
B64Decode(payload) == payload.bytes

\* audioop.ulaw2lin(ulaw_data, 2): one 16-bit sample per u-law byte
Ulaw2Lin(ulaw_data) == [i \in 1 .. Len(ulaw_data) |-> [lin |-> ulaw_data[i]]]

\* audioop.ratecv(pcm_data, 2, 1, 8000, 24000, None)[0]: three samples for one
Ratecv(pcm_data) == [i \in 1 .. 3 * Len(pcm_data) |-> pcm_data[(i + 2) \div 3]]

\* media.payload: the empty string, the encoding of one u-law byte, a text
\* that is no base64
MediaPayloads ==
    {B64Encode(<<>>), B64Encode(<<"u">>), [valid |-> FALSE, bytes |-> <<"?">>]}

\* `not encoded_audio_chunk`
IsEmptyPayload(payload) == payload.valid /\ payload.bytes = <<>>

\* The frames Twilio sends: start, stop, media, mark, any other event
TwilioFrames ==
    [event : {"start", "stop", "mark", "other"}, payload : {B64Encode(<<>>)}]
        \cup [event : {"media"}, payload : MediaPayloads]

\* start.streamSid of the n-th frame
StreamSid(n) == [sid |-> n]

\* The keys of response.data.deltas the start loop looks for, and any other
DeltaKeys ==
    {"agent_input_audio_stream", "agent_output_audio_stream__0",
     "agent_input_audio_stream_started_at", "other"}

\* What the engine yields to the start loop
TwilioResponses ==
    [type : {"OUTPUT_STREAM_CHUNK"}, key : DeltaKeys]
        \cup [type : ResponseTypes \ {"OUTPUT_STREAM_CHUNK"}, key : {"none"}]

ClearFrame == [event |-> "clear", streamSid |-> stream_sid]

MediaFrame(chunk) ==
    [event |-> "media", streamSid |-> stream_sid,
     media |-> [payload |-> B64Encode(chunk)]]

\* The frames sent by output relay o are marked -o
SentByRelay(o, frame) == <<[by |-> 0 - o, frame |-> frame]>>

NewTwilioTask(json_data, n) ==
    [event |-> json_data.event, payload |-> json_data.payload,
     sid |-> StreamSid(n), pc |-> "ready", yielded |-> <<>>, cancel |-> FALSE]

\* The chunks the output audio streams have yielded to their relays
RECURSIVE TotalRelayed(_)
TotalRelayed(os) ==
    IF os = <<>> THEN 0 ELSE os[1].index + TotalRelayed(Tail(os))

\* Frames received, responses and audio chunks yielded on the connection
TwilioInputsSoFar == InputsSoFar + TotalRelayed(otasks)

TwilioRunning(t) == tasks[t].pc \in {"ready", "iter", "stopping"}

TwilioConnect ==
    /\ flavor = "twilio"
    /\ phase = "new"
    /\ input_audio_stream' = None
    /\ output_audio_task' = None
    /\ \/ /\ app_runner' = 1
          /\ connected' = TRUE
          /\ event_response_task' = None
          /\ phase' = "accepted"
       \/ \* get_app_runner_async raises
          /\ phase' = "refused"
          /\ UNCHANGED <<app_runner, event_response_task, connected>>
    /\ UNCHANGED <<flavor, tasks, outbound, closes, stops, escaped,
                   input_audio, otasks, stream_sid, assetVars, actVars>>

\* disconnect.  After a connect that raised in get_app_runner_async the
\* attribute self._app_runner was never assigned: reading it raises, before
\* the close.
TwilioDisconnect ==
    /\ flavor = "twilio"
    /\ phase \in {"accepted", "refused"}
    /\ connected' = FALSE
    /\ IF phase = "refused"
       THEN /\ escaped' = escaped \cup {"disconnect"}
            /\ UNCHANGED <<stops, closes>>
       ELSE /\ stops' = IF app_runner # None
                        THEN [stops EXCEPT ![app_runner] = @ + 1]
                        ELSE stops
            /\ closes' = closes + 1
            /\ UNCHANGED escaped
    /\ phase' = "disconnected"
    /\ UNCHANGED <<flavor, app_runner, event_response_task, tasks, outbound,
                   twVars, assetVars, actVars>>

TwilioReceive ==
    /\ flavor = "twilio"
    /\ phase = "accepted"
    /\ Len(tasks) < MaxEvents
    /\ TwilioInputsSoFar < MaxCallInputs
    /\ \E json_data \in TwilioFrames :
          /\ tasks' = Append(tasks, NewTwilioTask(json_data, Len(tasks) + 1))
          /\ event_response_task' = Len(tasks) + 1
    /\ UNCHANGED <<flavor, phase, connected, app_runner, outbound, closes,
                   stops, escaped, twVars, assetVars, actVars>>

\* An uncaught exception ends the task
TwilioRaised(t) ==
    /\ tasks' = [tasks EXCEPT ![t].pc = "failed"]
    /\ escaped' = escaped \cup {"_respond_to_event"}

\* The start branch up to the loop: the stream id, then the run
TwilioStart(t) ==
    /\ tasks[t].event = "start"
    /\ tasks[t].pc = "ready"
    /\ stream_sid' = tasks[t].sid
    /\ IF app_runner = None
       THEN TwilioRaised(t)
       ELSE /\ tasks' = [tasks EXCEPT ![t].pc = "iter"]
            /\ UNCHANGED escaped
    /\ UNCHANGED <<flavor, phase, connected, app_runner, event_response_task,
                   outbound, closes, stops, input_audio_stream, input_audio,
                   output_audio_task, otasks, assetVars, actVars>>

\* The loop body of the start branch for one response
TwilioStartBody(t, response) ==
    IF ~connected
    THEN /\ tasks' = [tasks EXCEPT ![t].pc = "done",
                                   ![t].yielded = Append(@, "response")]
         /\ UNCHANGED <<outbound, escaped, input_audio_stream,
                        output_audio_task, otasks>>
    ELSE IF response.key = "agent_input_audio_stream"
    THEN \/ /\ input_audio_stream' = 1
            /\ tasks' = [tasks EXCEPT ![t].yielded = Append(@, "response")]
            /\ UNCHANGED <<outbound, escaped, output_audio_task, otasks>>
         \/ \* get_asset_by_objref raises
            /\ TwilioRaised(t)
            /\ UNCHANGED <<outbound, input_audio_stream, output_audio_task,
                           otasks>>
    ELSE IF response.key = "agent_output_audio_stream__0"
    THEN /\ otasks' = Append(otasks, [pc |-> "start", index |-> 0])
         /\ output_audio_task' = Len(otasks) + 1
         /\ tasks' = [tasks EXCEPT ![t].yielded = Append(@, "response")]
         /\ UNCHANGED <<outbound, escaped, input_audio_stream>>
    ELSE IF response.key = "agent_input_audio_stream_started_at"
    THEN /\ outbound' = outbound \o Sent(t, <<ClearFrame>>)
         /\ tasks' = [tasks EXCEPT ![t].yielded = Append(@, "response")]
         /\ UNCHANGED <<escaped, input_audio_stream, output_audio_task, otasks>>
    ELSE /\ tasks' = [tasks EXCEPT ![t].yielded = Append(@, "response")]
         /\ UNCHANGED <<outbound, escaped, input_audio_stream,
                        output_audio_task, otasks>>

\* One turn of `async for response in response_iterator` of the start branch
TwilioStartLoop(t) ==
    /\ tasks[t].event = "start"
    /\ tasks[t].pc = "iter"
    /\ \/ /\ TwilioInputsSoFar < MaxCallInputs
          /\ \E response \in TwilioResponses : TwilioStartBody(t, response)
       \/ \* the response sequence ends
          /\ tasks' = [tasks EXCEPT ![t].pc = "done"]
          /\ UNCHANGED <<outbound, escaped, input_audio_stream,
                         output_audio_task, otasks>>
       \/ \* the engine raises: the loop is in no try block
          /\ TwilioRaised(t)
          /\ UNCHANGED <<outbound, input_audio_stream, output_audio_task,
                         otasks>>
    /\ UNCHANGED <<flavor, phase, connected, app_runner, event_response_task,
                   closes, stops, input_audio, stream_sid, assetVars, actVars>>

\* The stop branch: await self._app_runner.stop(), then the handle is dropped
TwilioStopEvent(t) ==
    /\ tasks[t].event = "stop"
    /\ \/ /\ tasks[t].pc = "ready"
          /\ IF app_runner = None
             THEN /\ TwilioRaised(t)
                  /\ UNCHANGED stops
             ELSE /\ stops' = [stops EXCEPT ![app_runner] = @ + 1]
                  /\ tasks' = [tasks EXCEPT ![t].pc = "stopping"]
                  /\ UNCHANGED escaped
          /\ UNCHANGED app_runner
       \/ /\ tasks[t].pc = "stopping"
          /\ app_runner' = None
          /\ tasks' = [tasks EXCEPT ![t].pc = "done"]
          /\ UNCHANGED <<stops, escaped>>
    /\ UNCHANGED <<flavor, phase, connected, event_response_task, outbound,
                   closes, twVars, assetVars, actVars>>

\* TwilioMedia appending the raw payload bytes when the conversion fails
TwilioMediaKeepsBadAudio(t) ==
    /\ tasks[t].event = "media"
    /\ tasks[t].pc = "ready"
    /\ LET encoded_audio_chunk == tasks[t].payload
       IN  IF IsEmptyPayload(encoded_audio_chunk) \/ input_audio_stream = None
           THEN /\ tasks' = [tasks EXCEPT ![t].pc = "done"]
                /\ UNCHANGED input_audio
           ELSE /\ tasks' = [tasks EXCEPT ![t].pc = "done"]
                /\ input_audio' = Append(input_audio, encoded_audio_chunk.bytes)
    /\ UNCHANGED <<flavor, phase, connected, app_runner, event_response_task,
                   outbound, closes, stops, escaped, input_audio_stream,
                   output_audio_task, otasks, stream_sid, assetVars, actVars>>

\* The media branch: it has no suspension point
TwilioMedia(t) ==
    /\ tasks[t].event = "media"
    /\ tasks[t].pc = "ready"
    /\ LET encoded_audio_chunk == tasks[t].payload
       IN  IF IsEmptyPayload(encoded_audio_chunk) \/ input_audio_stream = None
           THEN /\ tasks' = [tasks EXCEPT ![t].pc = "done"]
                /\ UNCHANGED input_audio
           ELSE IF ~encoded_audio_chunk.valid
           THEN \* b64decode raises; `except Exception` logs it
                /\ tasks' = [tasks EXCEPT ![t].pc = "dropped"]
                /\ UNCHANGED input_audio
           ELSE \/ /\ tasks' = [tasks EXCEPT ![t].pc = "done"]
                   /\ input_audio' = Append(input_audio,
                         Ratecv(Ulaw2Lin(B64Decode(encoded_audio_chunk))))
                \/ \* append_chunk raises; `except Exception` logs it
                   /\ tasks' = [tasks EXCEPT ![t].pc = "dropped"]
                   /\ UNCHANGED input_audio
    /\ UNCHANGED <<flavor, phase, connected, app_runner, event_response_task,
                   outbound, closes, stops, escaped, input_audio_stream,
                   output_audio_task, otasks, stream_sid, assetVars, actVars>>

\* mark is logged; any other event matches no branch
TwilioIgnored(t) ==
    /\ tasks[t].event \in {"mark", "other"}
    /\ tasks[t].pc = "ready"
    /\ tasks' = [tasks EXCEPT ![t].pc = "done"]
    /\ UNCHANGED <<flavor, phase, connected, app_runner, event_response_task,
                   outbound, closes, stops, escaped, twVars, assetVars, actVars>>

TwilioRespondToEvent ==
    /\ flavor = "twilio"
    /\ \E t \in TaskIds :
          \/ TwilioStart(t)
          \/ TwilioStartLoop(t)
          \/ TwilioStopEvent(t)
          \/ TwilioMedia(t)
          \/ TwilioIgnored(t)

\* _process_output_audio_stream, from one suspension point to the next: the
\* asset lookup, then one turn of the read loop; no turn reads the liveness
\* flag
TwilioProcessOutputAudioStream ==
    /\ flavor = "twilio"
    /\ \E o \in 1 .. Len(otasks) :
          \/ /\ otasks[o].pc = "start"
             /\ \/ /\ otasks' = [otasks EXCEPT ![o].pc = "reading"]
                   /\ UNCHANGED escaped
                \/ \* get_asset_by_objref raises
                   /\ otasks' = [otasks EXCEPT ![o].pc = "failed"]
                   /\ escaped' = escaped \cup {"_process_output_audio_stream"}
             /\ UNCHANGED outbound
          \/ /\ otasks[o].pc = "reading"
             /\ \/ \* a chunk of audio
                   /\ TwilioInputsSoFar < MaxCallInputs
                   /\ otasks' = [otasks EXCEPT ![o].index = @ + 1]
                   /\ outbound' = outbound
                         \o SentByRelay(o, MediaFrame(<<otasks[o].index + 1>>))
                \/ \* an empty chunk, or the end of the stream
                   /\ otasks' = [otasks EXCEPT ![o].pc = "done"]
                   /\ UNCHANGED outbound
             /\ UNCHANGED escaped
    /\ UNCHANGED <<flavor, phase, connected, app_runner, event_response_task,
                   tasks, closes, stops, input_audio_stream, input_audio,
                   output_audio_task, stream_sid, assetVars, actVars>>

----------------------------------------------------------------------------

InitSession(f) ==
    /\ flavor = f
    /\ phase = "new"
    /\ connected = FALSE
    /\ app_runner = None
    /\ event_response_task = None
    /\ tasks = <<>>
    /\ outbound = <<>>
    /\ closes = 0
    /\ stops = [h \in Handles |-> 0]
    /\ escaped = {}
    /\ asset = [c \in AssetConns |-> "unset"]
    /\ aphase = [c \in AssetConns |-> "new"]
    /\ stream = [chunks |-> <<>>, finalized |-> FALSE]
    /\ atasks = <<>>
    /\ actor = "unset"
    /\ actor_log = <<>>
    /\ activation_task = None
    /\ terminated = <<>>
    /\ nframes = 0
    /\ input_audio_stream = None
    /\ input_audio = <<>>
    /\ output_audio_task = None
    /\ otasks = <<>>
    /\ stream_sid = "unset"

InitApp == InitSession("web")

NextApp ==
    \/ AppConnect
    \/ AppDisconnect
    \/ AppReceive
    \/ AppRespondToEvent

SpecApp == InitApp /\ [][NextApp]_vars

InitStore == InitSession("store")

NextStore ==
    \/ StoreAppConnect
    \/ AppDisconnect
    \/ AppReceive
    \/ AppRespondToEvent

SpecStore == InitStore /\ [][NextStore]_vars

InitPlayground == InitSession("playground")

NextPlayground ==
    \/ PlaygroundConnect
    \/ PlaygroundDisconnect
    \/ PlaygroundReceive
    \/ PlaygroundRespondToEvent

SpecPlayground == InitPlayground /\ [][NextPlayground]_vars

----------------------------------------------------------------------------
InitAsset == InitSession("asset")

NextAsset ==
    \/ AssetConnect
    \/ AssetDisconnect
    \/ AssetReceive
    \/ AssetRespondToEvent

SpecAsset == InitAsset /\ [][NextAsset]_vars

InitConnection == InitSession("activation")

NextConnection ==
    \/ ConnectionConnect
    \/ ConnectionDisconnect
    \/ ConnectionReceive
    \/ ConnectionActivate

SpecConnection == InitConnection /\ [][NextConnection]_vars

InitTwilio == InitSession("twilio")

NextTwilio ==
    \/ TwilioConnect
    \/ TwilioDisconnect
    \/ TwilioReceive
    \/ TwilioRespondToEvent
    \/ TwilioProcessOutputAudioStream

SpecTwilio == InitTwilio /\ [][NextTwilio]_vars

----------------------------------------------------------------------------
(* Properties *)

\* The frames task t has sent, in the order of sending
RECURSIVE FramesOf(_, _)
FramesOf(out, t) ==
    IF out = <<>> THEN <<>>
    ELSE IF out[1].by = t THEN <<out[1].frame>> \o FramesOf(Tail(out), t)
    ELSE FramesOf(Tail(out), t)

OutFrames == [i \in 1 .. Len(outbound) |-> outbound[i].frame]

IsDoneFrame(f) == "event" \in DOMAIN f /\ f.event = "done"
IsErrorsFrame(f) == "errors" \in DOMAIN f /\ "reply_to" \notin DOMAIN f
IsTerminalFrame(f) == IsDoneFrame(f) \/ IsErrorsFrame(f)

RunTasks == {t \in TaskIds : tasks[t].event = "run"}

\* C1: once disconnect has run, no task sends a frame on the connection.
C1_NoFrameAfterDisconnect ==
    [][phase = "disconnected" => outbound' = outbound]_vars

\* C1, the part the run loop keeps: a run task sends nothing once the
\* liveness flag is false.
C1_RunLoopGated ==
    [][\A t \in TaskIds :
          (~connected /\ tasks[t].event = "run")
              => FramesOf(outbound', t) = FramesOf(outbound, t)]_vars

\* C2: after the frame of a terminal response (ERRORS, OUTPUT_STREAM_END) of
\* a run, no further frame of that run is forwarded.
C2_NoFrameAfterTerminal ==
    \A t \in RunTasks :
        LET fs == FramesOf(outbound, t)
        IN  \A i \in 1 .. Len(fs) : IsTerminalFrame(fs[i]) => i = Len(fs)

\* C3 as stated: at most one event-processing task runs at a time.
C3_AtMostOneRunning ==
    Cardinality({t \in TaskIds : Running(t)}) <= 1

\* C3 as amended: the session holds the handle of one task only, the one
\* spawned last; tasks spawned before it are neither awaited nor cancelled by
\* receive.
C3_HandleIsLatest ==
    /\ [](phase \in {"accepted", "disconnected"}
            => event_response_task = Len(tasks))
    /\ [][\A t \in TaskIds :
             (Len(tasks') > Len(tasks) /\ Running(t))
                 => tasks'[t] = tasks[t]]_vars

C3_Witness ==
    /\ Cardinality({t \in TaskIds : Running(t)}) >= 2
    /\ event_response_task = Len(tasks)

\* C4: stop on a stopped session is a no-op: the connection is closed once.
C4_CloseOnce == closes <= 1

\* A response sequence of n >= 0 chunks and then OUTPUT_STREAM_END
IsStream(ys) ==
    /\ Len(ys) >= 1
    /\ ys[Len(ys)].type = "OUTPUT_STREAM_END"
    /\ \A i \in 1 .. Len(ys) - 1 : ys[i].type = "OUTPUT_STREAM_CHUNK"

StreamFrames(ys, id) ==
    [i \in 1 .. Len(ys) |-> IF i < Len(ys) THEN ys[i] ELSE DoneFrame(id)]

\* C5: on a session that stays connected, a run whose responses are n chunks
\* and then OUTPUT_STREAM_END sends the n chunks in engine order, then one
\* done frame with the run's id, and nothing else; with no other task on
\* the session these are all the frames on the connection.
C5_StreamFrames ==
    \A t \in RunTasks :
        (connected /\ tasks[t].pc = "done" /\ IsStream(tasks[t].yielded))
            => /\ FramesOf(outbound, t)
                    = StreamFrames(tasks[t].yielded, tasks[t].id)
               /\ Len(tasks) = 1
                    => OutFrames = StreamFrames(tasks[t].yielded, tasks[t].id)

C5_Witness ==
    \E t \in RunTasks :
        /\ connected
        /\ tasks[t].pc = "done"
        /\ IsStream(tasks[t].yielded)
        /\ Len(tasks[t].yielded) = 3
        /\ Len(tasks) = 1

\* C6: a run that was yielded ERRORS on a connected session has sent exactly
\* one frame {errors: messages, request_id} and no done frame after it.
C6_ErrorsFrame ==
    \A t \in RunTasks :
        \A k \in 1 .. Len(tasks[t].yielded) :
            (connected /\ tasks[t].yielded[k].type = "ERRORS")
                => LET fs == FramesOf(outbound, t)
                       want == ErrorsFrame(tasks[t].yielded[k], tasks[t].id)
                   IN  \E i \in 1 .. Len(fs) :
                          /\ fs[i] = want
                          /\ \A j \in 1 .. Len(fs) :
                                j > i => ~IsDoneFrame(fs[j])

IsPayloadWrite(bytes) ==
    FirstField(bytes) = WriteTag /\ bytes # WriteTag \o <<NL>>

IsFinalize(bytes) == bytes = WriteTag \o <<NL>>

AssetTaskIds == 1 .. Len(atasks)

\* The tasks of read frames on a connection whose asset resolved
ReadTasks ==
    {t \in AssetTaskIds : /\ FirstField(atasks[t].bytes_data) = ReadTag
                          /\ asset[atasks[t].conn] = "asset"}

\* The payloads a task has sent as binary frames
SentBytes(t) ==
    LET w == atasks[t].wire
        RECURSIVE Args(_)
        Args(ops) == IF ops = <<>> THEN <<>>
                     ELSE IF ops[1].op = "send"
                          THEN <<ops[1].arg>> \o Args(Tail(ops))
                          ELSE Args(Tail(ops))
    IN  Args(w)

\* C7: after the frames write p1 .. write pk, finalize, whatever the order in
\* which their tasks run, the content is p1 .. pk in arrival order, the
\* stream is finalized after the appends and the connection is closed.
C7_WritesInArrivalOrder ==
    LET n == Len(atasks) IN
    (/\ asset[1] = "asset"
     /\ n >= 2
     /\ \A i \in 1 .. n - 1 : IsPayloadWrite(atasks[i].bytes_data)
     /\ IsFinalize(atasks[n].bytes_data)
     /\ \A i \in 1 .. n : atasks[i].pc \in {"done", "refused"})
        => /\ stream.finalized
           /\ stream.chunks = [i \in 1 .. n - 1 |-> From(atasks[i].bytes_data, 6)]
           /\ atasks[n].wire = <<Close(None)>>

\* C8: a write with a payload that reaches a finalized stream leaves the
\* content as it is, and its task sends the empty frame and then closes.
C8_WriteAfterFinalizeFails ==
    [][\A t \in AssetTaskIds :
          (/\ stream.finalized
           /\ asset[atasks[t].conn] = "asset"
           /\ IsPayloadWrite(atasks[t].bytes_data)
           /\ atasks[t].pc = "ready"
           /\ atasks'[t].pc # "ready")
              => /\ stream' = stream
                 /\ atasks'[t].wire = <<SendBytes(<<>>), Close(None)>>]_vars

C8_Witness ==
    \E t \in AssetTaskIds :
        /\ atasks[t].pc = "refused"
        /\ IsPayloadWrite(atasks[t].bytes_data)
        /\ stream.finalized
        /\ stream.chunks # <<>>

\* C9: a read sends the chunks of the stream from the first one on, in
\* append order, and when it ends on the finalized stream it has sent all
\* of them and nothing else.
C9_ReadSendsChunks ==
    \A t \in ReadTasks :
        /\ atasks[t].pc \in {"reading", "done"}
              => /\ Len(SentBytes(t)) <= Len(stream.chunks)
                 /\ SentBytes(t) = SubSeq(stream.chunks, 1, Len(SentBytes(t)))
                 /\ Len(atasks[t].wire) = Len(SentBytes(t))
        /\ atasks[t].pc = "done"
              => stream.finalized /\ SentBytes(t) = stream.chunks

C9_Witness ==
    \E t \in ReadTasks :
        /\ atasks[t].pc = "done"
        /\ stream.finalized
        /\ Len(stream.chunks) = 2
        /\ Len(SentBytes(t)) = 2

\* C10: once a terminate input has been taken while an activation is under
\* way and no status frame has been sent, the connection is closed, the
\* actor stopped, the activation task cancelled, and no frame follows.
C10_TerminateDisconnects ==
    (/\ terminated # <<>>
     /\ terminated[1].task # None
     /\ \A i \in 1 .. terminated[1].frames :
           outbound[i].frame.event \notin {"success", "error"})
        => /\ closes >= 1
           /\ actor = "stopped"
           /\ ~ActivationRunning(terminated[1].task)
           /\ Len(outbound) = terminated[1].frames

MediaTasks == {t \in TaskIds : flavor = "twilio" /\ tasks[t].event = "media"}

\* C11: a media event that finds no input audio stream attached, or has an
\* empty payload, or whose decoding or append raises, is dropped: its task
\* ends without an exception, sends no frame, appends nothing, and leaves
\* the liveness flag, the run handle and the attached stream as they were.
C11_MediaDropped ==
    [][\A t \in MediaTasks :
          (/\ tasks[t].pc = "ready"
           /\ tasks'[t].pc # "ready"
           /\ \/ IsEmptyPayload(tasks[t].payload)
              \/ input_audio_stream = None
              \/ ~tasks[t].payload.valid
              \/ tasks'[t].pc = "dropped")
              => /\ tasks'[t].pc \in {"done", "dropped"}
                 /\ UNCHANGED <<phase, connected, app_runner, outbound,
                                closes, stops, escaped, twVars>>]_vars

C11_Witness ==
    \E t \in MediaTasks :
        /\ tasks[t].pc = "dropped"
        /\ ~tasks[t].payload.valid
        /\ input_audio_stream # None
        /\ connected
        /\ input_audio = <<>>

\* C12: on a connection whose asset resolved to null, the task of a frame
\* that carries bytes (read, write with payload, finalize, any other tag)
\* closes the connection with status 1008 and does nothing else: it starts
\* no read and leaves the stream as it is.
C12_NullAssetCloses1008 ==
    [][\A t \in AssetTaskIds :
          (/\ asset[atasks[t].conn] = "null"
           /\ atasks[t].bytes_data # <<>>
           /\ atasks[t].pc = "ready"
           /\ atasks'[t].pc # "ready")
              => /\ atasks'[t].pc = "done"
                 /\ atasks'[t].wire = <<[op |-> "close", arg |-> 1008]>>
                 /\ stream' = stream]_vars

C12_Witness ==
    \E t, u, v \in AssetTaskIds :
        /\ asset[1] = "null"
        /\ IsPayloadWrite(atasks[t].bytes_data)
        /\ IsFinalize(atasks[u].bytes_data)
        /\ atasks[v].bytes_data = ReadTag
        /\ \A w \in {t, u, v} :
              atasks[w].wire = <<[op |-> "close", arg |-> 1008]>>
        /\ stream = [chunks |-> <<>>, finalized |-> FALSE]

\* C13: a task whose read, append or finalize raised has sent, after the
\* chunks it had forwarded, exactly one empty binary frame and then closed
\* the connection, and the exception stayed inside the task.
C13_FailureSendsEmptyThenCloses ==
    \A t \in AssetTaskIds :
        atasks[t].pc \in {"fault", "refused"}
            => LET w == atasks[t].wire
                   n == Len(w)
               IN  /\ n >= 2
                   /\ w[n - 1] = SendBytes(<<>>)
                   /\ w[n] = Close(None)
                   /\ \A i \in 1 .. n - 2 :
                         w[i].op = "send" /\ w[i].arg # <<>>
                   /\ escaped = {}

C13_Witness ==
    \E t \in ReadTasks :
        /\ atasks[t].pc = "fault"
        /\ Len(atasks[t].wire) = 3
        /\ \E u \in AssetTaskIds :
              IsFinalize(atasks[u].bytes_data) /\ atasks[u].pc = "fault"

\* C14: after an anonymous user was refused at connect (closed, never
\* accepted, no actor created), no later callback raises or sends a frame.
C14_AnonymousRefused ==
    (flavor = "activation" /\ phase # "new" /\ actor = "unset")
        => /\ closes = 1
           /\ tasks = <<>>
           /\ outbound = <<>>
           /\ escaped = {}

StopTasks == {t \in TaskIds : tasks[t].event = "stop"}

\* C15: when the task of a stop event runs while a run task is streaming,
\* the run task is cancelled, stop is called on the run handle, the
\* liveness flag is set false and the connection is closed.
C15_StopCancelsRun ==
    [][\A t \in StopTasks :
          (/\ tasks[t].pc = "ready"
           /\ tasks'[t].pc = "done"
           /\ \E r \in RunTasks : tasks[r].pc = "iter")
              => /\ \A r \in RunTasks :
                       tasks[r].pc = "iter" => tasks'[r].cancel
                 /\ app_runner # None
                       => stops'[app_runner] = stops[app_runner] + 1
                 /\ ~connected'
                 /\ closes' = closes + 1]_vars

\* C16: disconnect sets the liveness flag false, calls stop on the run
\* handle when one is held, and requests the cancellation of the task
\* spawned last when that task is still running.
C16_DisconnectDoesAllThree ==
    [][(phase = "accepted" /\ phase' = "disconnected")
          => /\ ~connected'
             /\ app_runner # None
                   => stops'[app_runner] = stops[app_runner] + 1
             /\ (event_response_task # None /\ Running(event_response_task))
                   => tasks'[event_response_task].cancel]_vars

\* The frames the run loop sends for a response sequence, in engine order
RECURSIVE ForwardedFrames(_, _)
ForwardedFrames(ys, id) ==
    IF ys = <<>> THEN <<>>
    ELSE AppDispatch(ys[1], id) \o ForwardedFrames(Tail(ys), id)

IsPrefix(a, b) == Len(a) <= Len(b) /\ a = SubSeq(b, 1, Len(a))

\* C17: whatever the interleaving with other runs, the frames of one run
\* on the connection are a prefix of the frames of its responses in the
\* order the engine produced them.
C17_RunFramesInEngineOrder ==
    \A t \in RunTasks :
        IsPrefix(FramesOf(outbound, t),
                 ForwardedFrames(tasks[t].yielded, tasks[t].id))

C17_Witness ==
    /\ Len(outbound) >= 3
    /\ outbound[1].by # outbound[2].by
    /\ outbound[3].by = outbound[1].by
    /\ outbound[3].frame # outbound[1].frame
    /\ \A t \in TaskIds : tasks[t].event = "run" /\ tasks[t].pc = "iter"

IsStatusFrame(f) == DOMAIN f = {"event"} /\ f.event \in {"success", "error"}

\* C18: the frame sent for a completed Connection is the last frame the
\* activation loop sends.
C18_ConnectionIsTerminal ==
    \A t \in TaskIds :
        LET fs == FramesOf(outbound, t)
        IN  \A i \in 1 .. Len(fs) : IsStatusFrame(fs[i]) => i = Len(fs)

\* C19: an exception of the engine during a run stays inside the task: the
\* step sends no frame and leaves the liveness flag, the run handle and the
\* connection as they were, the run sends nothing afterwards, and no
\* exception escapes.
C19_EngineRaiseAbsorbed ==
    [][\A t \in RunTasks :
          tasks'[t].pc = "raised"
              => /\ FramesOf(outbound', t) = FramesOf(outbound, t)
                 /\ tasks[t].pc # "raised"
                       => UNCHANGED <<outbound, phase, connected, app_runner,
                                      escaped>>]_vars

C19_Witness ==
    \E t, u \in RunTasks :
        /\ tasks[t].pc = "raised"
        /\ Len(FramesOf(outbound, t)) >= 1
        /\ u > t
        /\ tasks[u].pc = "done"
        /\ IsStream(tasks[u].yielded)
        /\ connected

CreateAssetTasks == {t \in TaskIds : tasks[t].event = "create_asset"}

\* C20: a create_asset event with id r gets exactly one reply, carrying r
\* as reply_to, request_id and asset_request_id: the asset's reference when
\* the creation succeeds, an errors list when it returns no asset or raises.
C20_CreateAssetReply ==
    \A t \in CreateAssetTasks :
        tasks[t].pc = "done"
            => LET fs == FramesOf(outbound, t)
                   r == tasks[t].id
               IN  /\ Len(fs) = 1
                   /\ fs[1].reply_to = r
                   /\ fs[1].request_id = r
                   /\ fs[1].asset_request_id = r
                   /\ IF CreateAssetOutcome(r) = "asset"
                      THEN "asset" \in DOMAIN fs[1]
                      ELSE "errors" \in DOMAIN fs[1]

\* The tasks of frames whose event the flavor does not recognise, and of
\* delete_asset frames
IgnoredTasks == {t \in TaskIds : tasks[t].event \in {"delete_asset", "other"}}

\* C21: the task of a frame with an unrecognised event, or of a
\* delete_asset frame, ends without starting a run, creating a run handle,
\* sending a frame or raising, and leaves the liveness flag and the held
\* run handle as they were.
C21_UnknownEventIgnored ==
    [][\A t \in IgnoredTasks :
          (tasks[t].pc = "ready" /\ tasks'[t].pc # "ready")
              => /\ tasks'[t].pc \in {"done", "cancelled"}
                 /\ UNCHANGED <<phase, connected, app_runner, outbound,
                                closes, stops, escaped>>]_vars

\* C22: a session whose liveness flag is true holds a run handle; and when
\* obtaining the handle raised at connect, the connection is not accepted,
\* no frame is sent and no exception leaves the disconnect callback.
C22_AcceptedAfterHandle ==
    /\ connected => app_runner # None
    /\ phase = "refused" => (~connected /\ tasks = <<>> /\ outbound = <<>>)
    /\ "disconnect" \notin escaped

\* C23: every run handle a run created is stopped at most once; while the
\* session is connected it is not stopped as long as its run is streaming;
\* and once every run has finished and the session has disconnected it has
\* been stopped once.
C23_HandleStoppedOnce ==
    \A t \in RunTasks :
        tasks[t].runner # None
            => LET h == tasks[t].runner
               IN  /\ stops[h] <= 1
                   /\ (phase = "accepted" /\ tasks[t].pc = "iter")
                         => stops[h] = 0
                   /\ (phase = "disconnected" /\ \A u \in TaskIds : ~Running(u))
                         => stops[h] = 1

====
